---- MODULE Spec2Model ----
(***************************************************************************)
(* The blog server of src/blog/blog.go: NewServer loads every .article     *)
(* file under the content root (loadDocs), orders and cross-links the      *)
(* documents, pre-renders the Atom and JSON feeds, and ServeHTTP then      *)
(* answers requests from that corpus.                                      *)
(*                                                                         *)
(* A *Doc is a pointer: a document is identified by its index in heap,     *)
(* the order in which the walk allocated it.  Go slices are 0-based, the   *)
(* sequences here 1-based: s.docs[i] of the source is docs[i+1].           *)
(***************************************************************************)
EXTENDS Integers, Sequences, FiniteSets, TLC

VARIABLES
    cfg,        \* Server.cfg
    pc,         \* where NewServer is: "templates", "walk", "atom", "json", "serving", "failed"
    walked,     \* index in Tree of the last entry filepath.Walk reported
    heap,       \* the Doc values allocated so far, by pointer
    docs,       \* Server.docs
    tags,       \* Server.tags
    docPaths,   \* Server.docPaths
    docTags,    \* Server.docTags
    atomFeed,   \* Server.atomFeed
    jsonFeed,   \* Server.jsonFeed
    inflight,   \* the request each serving goroutine is handling
    resp,       \* what each serving goroutine wrote last
    loadErr,    \* history: an error was met while loading
    unvisited   \* history: article files exist in a directory the walk could not read

vars == <<cfg, pc, walked, heap, docs, tags, docPaths, docTags, atomFeed,
          jsonFeed, inflight, resp, loadErr, unvisited>>

shared == <<heap, docs, tags, docPaths, docTags, atomFeed, jsonFeed>>

-----------------------------------------------------------------------------
(* Bounds and input domains *)

MaxDocs == 3
MaxSortDocs == 7
MaxTime == 2
MaxHandlers == 2

Nil == 0
Times == 1..MaxTime
Handlers == 1..MaxHandlers

ext == ".article"
root == "content"

\* The entries of a content tree, in the lexical order filepath.Walk reports them.
Tree == <<"/a.article", "/index.article", "/notes.txt", "/p.article", "/sub",
          "/t.article", "/u.article", "/v.article", "/w.article", "/x.article",
          "/y.article">>

TagOrder == <<"go", "web">>
TagLists == {<<>>, <<"go">>, <<"go", "web">>, <<"web", "web">>}

-----------------------------------------------------------------------------
(* Strings *)

Range(s) == {s[i] : i \in DOMAIN s}

HasPrefix(s, prefix) ==
    /\ Len(s) >= Len(prefix)
    /\ SubSeq(s, 1, Len(prefix)) = prefix

TrimPrefix(s, prefix) ==
    IF HasPrefix(s, prefix) THEN SubSeq(s, Len(prefix) + 1, Len(s)) ELSE s

\* filepath.Ext: the suffix beginning at the final dot of the final element.
RECURSIVE ExtFrom(_, _)
ExtFrom(p, i) ==
    IF i < 1 \/ SubSeq(p, i, i) = "/" THEN ""
    ELSE IF SubSeq(p, i, i) = "." THEN SubSeq(p, i, Len(p))
    ELSE ExtFrom(p, i - 1)

Ext(p) == ExtFrom(p, Len(p))

-----------------------------------------------------------------------------
(* sort.Sort over docsByTime *)

Less(h, a, b) == h[a].Time > h[b].Time

Swap(q, i, j) == [q EXCEPT ![i] = q[j], ![j] = q[i]]

\* for j := i; j > a && data.Less(j, j-1); j-- { data.Swap(j, j-1) }
RECURSIVE SiftDown(_, _, _)
SiftDown(h, q, j) ==
    IF j > 1 /\ Less(h, q[j], q[j - 1]) THEN SiftDown(h, Swap(q, j, j - 1), j - 1) ELSE q

RECURSIVE InsertionSort(_, _, _)
InsertionSort(h, q, i) ==
    IF i > Len(q) THEN q ELSE InsertionSort(h, SiftDown(h, q, i), i + 1)

\* for i := a + 6; i < b; i++ { if data.Less(i, i-6) { data.Swap(i, i-6) } }
RECURSIVE ShellPass(_, _, _)
ShellPass(h, q, i) ==
    IF i > Len(q) THEN q
    ELSE ShellPass(h, IF Less(h, q[i], q[i - 6]) THEN Swap(q, i, i - 6) ELSE q, i + 1)

\* sort.Sort on at most 12 elements, where no release partitions: up to Go 1.18
\* one Shell pass with gap 6 and then an insertion sort, from Go 1.19 (pdqsort)
\* the insertion sort alone.
Builds == {"go1.18", "go1.19"}

Sort(h, q, build) ==
    IF build = "go1.18" THEN InsertionSort(h, ShellPass(h, q, 7), 2)
    ELSE InsertionSort(h, q, 2)

RECURSIVE PermsOf(_)
PermsOf(S) ==
    IF S = {} THEN {<<>>}
    ELSE UNION {{<<x>> \o q : q \in PermsOf(S \ {x})} : x \in S}

\* for d := range related { append }; sort.Sort: a Go map is ranged over in an
\* order that differs from run to run.
SortedFromMap(h, S, build) == {Sort(h, q, build) : q \in PermsOf(S)}

-----------------------------------------------------------------------------
(* loadDocs *)

NewDoc(p, e) ==
    [Path      |-> cfg.BasePath \o p,
     Permalink |-> cfg.BaseURL \o p,
     Time      |-> e.Time,
     Tags      |-> e.Tags,
     Related   |-> <<>>,
     Newer     |-> Nil,
     Older     |-> Nil]

TreeIndex(name) == CHOOSE i \in DOMAIN Tree : Tree[i] = name

\* The callback fn that loadDocs hands to filepath.Walk, on one entry.
WalkFn(e) ==
    /\ pc = "walk"
    /\ TreeIndex(e.name) > walked
    /\ walked' = TreeIndex(e.name)
    /\ LET p == root \o e.name IN
       IF Ext(p) # ext
       THEN /\ unvisited' = (unvisited \/ (e.err /\ e.hidden))
            /\ loadErr' = (loadErr \/ e.err)
            /\ UNCHANGED <<pc, heap, docs>>
       ELSE IF e.out # "ok"
       THEN /\ pc' = "failed"
            /\ loadErr' = TRUE
            /\ UNCHANGED <<heap, docs, unvisited>>
       ELSE /\ heap' = Append(heap, NewDoc(SubSeq(p, Len(root) + 1, Len(p) - Len(ext)), e))
            /\ docs' = Append(docs, Len(heap) + 1)
            /\ loadErr' = (loadErr \/ e.err)
            /\ UNCHANGED <<pc, unvisited>>
    /\ UNCHANGED <<cfg, tags, docPaths, docTags, atomFeed, jsonFeed, inflight, resp>>

RECURSIVE AppendEach(_, _, _)
AppendEach(m, ts, d) ==
    IF ts = <<>> THEN m
    ELSE LET t == Head(ts)
             old == IF t \in DOMAIN m THEN m[t] ELSE <<>>
         IN AppendEach([x \in DOMAIN m \cup {t} |-> IF x = t THEN Append(old, d) ELSE m[x]],
                       Tail(ts), d)

RECURSIVE IndexTags(_, _, _)
IndexTags(h, m, ds) ==
    IF ds = <<>> THEN m
    ELSE IndexTags(h, AppendEach(m, h[Head(ds)].Tags, Head(ds)), Tail(ds))

\* Mutant of IndexPaths: keyed by d.Path, the base path not trimmed.
RECURSIVE IndexPathsUntrimmed(_, _, _)
IndexPathsUntrimmed(h, m, ds) ==
    IF ds = <<>> THEN m
    ELSE LET k == h[Head(ds)].Path IN
         IndexPathsUntrimmed(h, [x \in DOMAIN m \cup {k} |-> IF x = k THEN Head(ds) ELSE m[x]],
                             Tail(ds))

RECURSIVE IndexPaths(_, _, _)
IndexPaths(h, m, ds) ==
    IF ds = <<>> THEN m
    ELSE LET k == TrimPrefix(h[Head(ds)].Path, cfg.BasePath) IN
         IndexPaths(h, [x \in DOMAIN m \cup {k} |-> IF x = k THEN Head(ds) ELSE m[x]],
                    Tail(ds))

EmptyMap == [x \in {} |-> <<>>]

\* sort.Strings over the keys of docTags.
SortedTags(m) ==
    LET keep(t) == t \in DOMAIN m
    IN SelectSeq(TagOrder, keep)

IndexOf(q, d) == CHOOSE i \in DOMAIN q : q[i] = d /\ \A j \in 1..(i - 1) : q[j] # d

\* Mutant of NewerOf: the guard i > 0 of the source taken over unchanged into
\* 1-based positions, one document late.
NewerOfOneLate(q, i) == IF i > 2 THEN q[i - 1] ELSE Nil

NewerOf(q, i) == IF i > 1 THEN q[i - 1] ELSE Nil

OlderOf(q, i) == IF i + 1 <= Len(q) THEN q[i + 1] ELSE Nil

\* Mutant of RelatedSet: without the test d != doc.
RelatedSetWithSelf(h, m, doc) ==
    UNION {Range(m[t]) : t \in Range(h[doc].Tags)}

RelatedSet(h, m, doc) ==
    {d \in UNION {Range(m[t]) : t \in Range(h[doc].Tags)} : d # doc}

\* One choice of doc.Related for each of the documents 1..n: the map of related
\* documents is ranged over in any order and then sorted.
RECURSIVE RelatedOutcomes(_, _, _, _)
RelatedOutcomes(h, m, n, build) ==
    IF n = 0 THEN {<<>>}
    ELSE {Append(rs, r) : rs \in RelatedOutcomes(h, m, n - 1, build),
                          r \in SortedFromMap(h, RelatedSet(h, m, n), build)}

\* loadDocs once the walk has returned without error.
LoadDocs(build) ==
    /\ pc = "walk"
    /\ LET q == Sort(heap, docs, build)
           m == IndexTags(heap, EmptyMap, q) IN
         /\ docs' = q
         /\ docPaths' = IndexPaths(heap, EmptyMap, q)
         /\ docTags' = m
         /\ tags' = SortedTags(m)
         /\ \E rel \in RelatedOutcomes(heap, m, Len(heap), build) :
              heap' = [d \in DOMAIN heap |->
                         [heap[d] EXCEPT !.Newer = NewerOf(q, IndexOf(q, d)),
                                         !.Older = OlderOf(q, IndexOf(q, d)),
                                         !.Related = rel[d]]]
    /\ pc' = "atom"
    /\ UNCHANGED <<cfg, walked, atomFeed, jsonFeed, inflight, resp, loadErr, unvisited>>

-----------------------------------------------------------------------------
(* NewServer *)

\* The five template parses at the head of NewServer.
ParseTemplates(ok) ==
    /\ pc = "templates"
    /\ pc' = IF ok THEN "walk" ELSE "failed"
    /\ UNCHANGED <<cfg, walked, heap, docs, tags, docPaths, docTags, atomFeed,
                   jsonFeed, inflight, resp, loadErr, unvisited>>

FeedID == "tag:" \o cfg.Hostname \o ",2013:" \o cfg.Hostname

AtomEntry(d) ==
    [ID        |-> FeedID \o d.Path,
     Link      |-> d.Permalink,
     Published |-> d.Time,
     Updated   |-> d.Time]

JSONItem(d) == [Link |-> d.Permalink, Time |-> d.Time]

\* for i, doc := range s.docs { if i >= s.cfg.FeedArticles { break }; append },
\* with i the 0-based index of the source.
\* Mutant of AtomEntries: i > s.cfg.FeedArticles for i >= s.cfg.FeedArticles.
RECURSIVE AtomEntriesOneMore(_, _)
AtomEntriesOneMore(i, feed) ==
    IF i >= Len(docs) \/ i > cfg.FeedArticles THEN feed
    ELSE AtomEntriesOneMore(i + 1, Append(feed, AtomEntry(heap[docs[i + 1]])))

RECURSIVE AtomEntries(_, _)
AtomEntries(i, feed) ==
    IF i >= Len(docs) \/ i >= cfg.FeedArticles THEN feed
    ELSE AtomEntries(i + 1, Append(feed, AtomEntry(heap[docs[i + 1]])))

RECURSIVE JSONItems(_, _)
JSONItems(i, feed) ==
    IF i >= Len(docs) \/ i >= cfg.FeedArticles THEN feed
    ELSE JSONItems(i + 1, Append(feed, JSONItem(heap[docs[i + 1]])))

ZeroTime == 0

RenderAtomFeed(ok) ==
    /\ pc = "atom"
    /\ IF ok
       THEN /\ atomFeed' = [ID      |-> FeedID,
                            Updated |-> IF Len(docs) > 0 THEN heap[docs[1]].Time ELSE ZeroTime,
                            Link    |-> cfg.BaseURL \o "/feed.atom",
                            Entry   |-> AtomEntries(0, <<>>)]
            /\ pc' = "json"
            /\ UNCHANGED loadErr
       ELSE /\ pc' = "failed"
            /\ loadErr' = TRUE
            /\ UNCHANGED atomFeed
    /\ UNCHANGED <<cfg, walked, heap, docs, tags, docPaths, docTags, jsonFeed,
                   inflight, resp, unvisited>>

\* renderJSONFeed, and with it the tail of NewServer, which returns the server.
RenderJSONFeed(ok) ==
    /\ pc = "json"
    /\ IF ok
       THEN /\ jsonFeed' = [Items |-> JSONItems(0, <<>>)]
            /\ pc' = "serving"
            /\ UNCHANGED loadErr
       ELSE /\ pc' = "failed"
            /\ loadErr' = TRUE
            /\ UNCHANGED jsonFeed
    /\ UNCHANGED <<cfg, walked, heap, docs, tags, docPaths, docTags, atomFeed,
                   inflight, resp, unvisited>>

-----------------------------------------------------------------------------
(* ServeHTTP *)

Letters == {"a", "b", "c", "d", "e", "f", "g", "h", "i", "j", "k", "l", "m",
            "n", "o", "p", "q", "r", "s", "t", "u", "v", "w", "x", "y", "z",
            "A", "B", "C", "D", "E", "F", "G", "H", "I", "J", "K", "L", "M",
            "N", "O", "P", "Q", "R", "S", "T", "U", "V", "W", "X", "Y", "Z"}

Digits == {"0", "1", "2", "3", "4", "5", "6", "7", "8", "9"}

CharAt(s, i) == SubSeq(s, i, i)

\* Mutant of validJSONPFunc: (?i)^[a-z0-9_.]+$, the leading class lost.
validJSONPFuncAnyFirst(p) ==
    /\ Len(p) >= 1
    /\ \A i \in 1..Len(p) : CharAt(p, i) \in Letters \cup Digits \cup {"_", "."}

\* (?i)^[a-z_][a-z0-9_.]*$
validJSONPFunc(p) ==
    /\ Len(p) >= 1
    /\ CharAt(p, 1) \in Letters \cup {"_"}
    /\ \A i \in 2..Len(p) : CharAt(p, i) \in Letters \cup Digits \cup {"_", "."}

Idle == [busy |-> FALSE, Path |-> "", jsonp |-> ""]

Request(path, jsonp) == [busy |-> TRUE, Path |-> path, jsonp |-> jsonp]

NoResp == [req |-> Idle, kind |-> "none", view |-> "", Data |-> <<>>, Doc |-> Nil,
           ctype |-> "", body |-> <<>>]

Page(r, view, data, doc) ==
    [req |-> r, kind |-> "template", view |-> view, Data |-> data, Doc |-> doc,
     ctype |-> "", body |-> <<>>]

Bytes(r, ctype, body) ==
    [req |-> r, kind |-> "bytes", view |-> "", Data |-> <<>>, Doc |-> Nil,
     ctype |-> ctype, body |-> body]

Static(r) == [NoResp EXCEPT !.req = r, !.kind = "static"]

\* s.docs[:n] with n < 0 is a run-time panic; the handler writes nothing.
Panic(r) == [NoResp EXCEPT !.req = r, !.kind = "panic"]

Home(r) ==
    IF Len(docs) > cfg.HomeArticles
    THEN IF cfg.HomeArticles < 0 THEN Panic(r)
         ELSE Page(r, "home", SubSeq(docs, 1, cfg.HomeArticles), Nil)
    ELSE Page(r, "home", docs, Nil)

Article(r, p) ==
    IF p \in DOMAIN docPaths THEN Page(r, "article", <<>>, docPaths[p]) ELSE Static(r)

JSONFeed(r) ==
    IF validJSONPFunc(r.jsonp)
    THEN Bytes(r, "application/javascript; charset=utf-8", <<r.jsonp, "(", jsonFeed, ")">>)
    ELSE Bytes(r, "application/json; charset=utf-8", <<jsonFeed>>)

Respond(r) ==
    LET p == TrimPrefix(r.Path, cfg.BasePath) IN
    CASE p = "/" -> Home(r)
      [] p = "/index" -> Page(r, "index", docs, Nil)
      [] p \in {"/feed.atom", "/feeds/posts/default"} ->
             Bytes(r, "application/atom+xml; charset=utf-8", <<atomFeed>>)
      [] p = "/.json" -> JSONFeed(r)
      [] OTHER -> Article(r, p)

\* net/http hands a request to a goroutine of its own.
Accept(h, r) ==
    /\ pc = "serving"
    /\ ~inflight[h].busy
    /\ inflight' = [inflight EXCEPT ![h] = r]
    /\ UNCHANGED <<cfg, pc, walked, heap, docs, tags, docPaths, docTags, atomFeed,
                   jsonFeed, resp, loadErr, unvisited>>

\* Mutant of ServeHTTP: the home route cuts s.docs itself down to HomeArticles
\* instead of the slice it hands to the template.
ServeHTTPCutsDocs(h) ==
    /\ pc = "serving"
    /\ inflight[h].busy
    /\ resp' = [resp EXCEPT ![h] = Respond(inflight[h])]
    /\ inflight' = [inflight EXCEPT ![h] = Idle]
    /\ docs' = IF TrimPrefix(inflight[h].Path, cfg.BasePath) = "/"
                    /\ Len(docs) > cfg.HomeArticles /\ cfg.HomeArticles >= 0
                THEN SubSeq(docs, 1, cfg.HomeArticles) ELSE docs
    /\ UNCHANGED <<cfg, pc, walked, heap, tags, docPaths, docTags, atomFeed,
                   jsonFeed, loadErr, unvisited>>

ServeHTTP(h) ==
    /\ pc = "serving"
    /\ inflight[h].busy
    /\ resp' = [resp EXCEPT ![h] = Respond(inflight[h])]
    /\ inflight' = [inflight EXCEPT ![h] = Idle]
    /\ UNCHANGED <<cfg, pc, walked, heap, docs, tags, docPaths, docTags, atomFeed,
                   jsonFeed, loadErr, unvisited>>

-----------------------------------------------------------------------------
(* Specifications *)

Config(home, feed) ==
    [BasePath     |-> "/blog",
     BaseURL      |-> "http://h/blog",
     Hostname     |-> "h",
     HomeArticles |-> home,
     FeedArticles |-> feed]

Counts == -1..(MaxDocs + 1)

InitWith(configs) ==
    /\ cfg \in configs
    /\ pc = "templates"
    /\ walked = 0
    /\ heap = <<>>
    /\ docs = <<>>
    /\ tags = <<>>
    /\ docPaths = EmptyMap
    /\ docTags = EmptyMap
    /\ atomFeed = Nil
    /\ jsonFeed = Nil
    /\ inflight = [h \in Handlers |-> Idle]
    /\ resp = [h \in Handlers |-> NoResp]
    /\ loadErr = FALSE
    /\ unvisited = FALSE

IsArticle(name) == Ext(name) = ext

\* The first n article files of Tree.
Articles(n) ==
    {Tree[i] : i \in {k \in DOMAIN Tree :
        /\ IsArticle(Tree[k])
        /\ Cardinality({j \in 1..k : IsArticle(Tree[j])}) <= n}}

Others == {Tree[i] : i \in {k \in DOMAIN Tree : ~IsArticle(Tree[k])}}

\* The entries with an extension are files, the others directories.
Files == {n \in Range(Tree) : Ext(n) # ""}

Outcomes == {"ok", "open", "parse", "render"}

Entry(name, err, hidden, out, time, taglist) ==
    [name |-> name, err |-> err, hidden |-> hidden, out |-> out, Time |-> time,
     Tags |-> taglist]

\* Article files that load: the inputs of the ordering and linking claims.
GoodEntries(names, times, taglists) ==
    {Entry(n, FALSE, FALSE, "ok", t, ts) : n \in names, t \in times, ts \in taglists}

\* Article files that fail to open, parse or render; one that Lstat fails on does
\* not open either.
BadEntries(names) ==
    {Entry(n, e, FALSE, o, 1, <<>>) : n \in names, e \in BOOLEAN, o \in Outcomes \ {"ok"}}

\* Files that are no articles, and directories: read, or unreadable with article
\* files inside.
OtherEntries ==
    {Entry(n, FALSE, FALSE, "ok", 1, <<>>) : n \in Others}
        \cup {Entry(n, TRUE, TRUE, "ok", 1, <<>>) : n \in Others \ Files}

Load(entries) ==
    \/ \E ok \in BOOLEAN : ParseTemplates(ok)
    \/ \E e \in entries : WalkFn(e)
    \/ \E build \in Builds : LoadDocs(build)

Render ==
    \/ \E ok \in BOOLEAN : RenderAtomFeed(ok)
    \/ \E ok \in BOOLEAN : RenderJSONFeed(ok)

DefaultConfig == Config(2, 2)

\* Loading: every time and tag list on up to MaxDocs articles.
Init == InitWith({DefaultConfig})

Next == Load(GoodEntries(Articles(MaxDocs), Times, TagLists))

Spec == Init /\ [][Next]_vars

-----------------------------------------------------------------------------
(* The corpus after loadDocs *)

Loaded == pc \in {"atom", "json", "serving"}

TimeOf(d) == heap[d].Time

TagsOf(d) == Range(heap[d].Tags)

NonIncreasing(q) == \A i, j \in DOMAIN q : i < j => TimeOf(q[i]) >= TimeOf(q[j])

IsPermutation(q, S) == Range(q) = S /\ Len(q) = Cardinality(S)

\* C1: after loadDocs, s.docs is a permutation of the discovered documents,
\* non-increasing in publish time, and documents with equal publish time keep
\* the order in which the walk discovered them.
C1_StableDescending ==
    Loaded =>
        /\ IsPermutation(docs, DOMAIN heap)
        /\ NonIncreasing(docs)
        /\ \A i, j \in DOMAIN docs :
               (i < j /\ TimeOf(docs[i]) = TimeOf(docs[j])) => docs[i] < docs[j]

\* C2: after loadDocs the document at position i has the document at i-1 as
\* Newer, absent exactly at the front, and the document at i+1 as Older, absent
\* exactly at the back; so at most one document lacks each link, and
\* D.Older = E exactly when E.Newer = D.
C2_NeighbourLinks ==
    Loaded =>
        /\ \A i \in DOMAIN docs :
               /\ heap[docs[i]].Newer = (IF i = 1 THEN Nil ELSE docs[i - 1])
               /\ heap[docs[i]].Older = (IF i = Len(docs) THEN Nil ELSE docs[i + 1])
               /\ heap[docs[i]].Newer = Nil <=> i = 1
               /\ heap[docs[i]].Older = Nil <=> i = Len(docs)
        /\ Cardinality({d \in DOMAIN heap : heap[d].Newer = Nil}) <= 1
        /\ Cardinality({d \in DOMAIN heap : heap[d].Older = Nil}) <= 1
        /\ \A d, e \in DOMAIN heap : heap[d].Older = e <=> heap[e].Newer = d

C2_Witness ==
    /\ Loaded
    /\ Len(docs) = MaxDocs
    /\ \E i \in DOMAIN docs : heap[docs[i]].Newer # Nil /\ heap[docs[i]].Older # Nil
    /\ \E i \in DOMAIN docs : i > 1 /\ TimeOf(docs[i]) = TimeOf(docs[i - 1])

\* C3: after loadDocs, D.Related holds exactly the other documents that share
\* a tag with D, each once, never D, in non-increasing publish time.
C3_Related ==
    Loaded =>
        \A d \in DOMAIN heap :
            LET r == heap[d].Related IN
            /\ Range(r) = {e \in DOMAIN heap \ {d} : TagsOf(d) \cap TagsOf(e) # {}}
            /\ Len(r) = Cardinality(Range(r))
            /\ d \notin Range(r)
            /\ NonIncreasing(r)

C3_Witness ==
    /\ Loaded
    /\ \E d, e \in DOMAIN heap :
           /\ d # e
           /\ Cardinality(TagsOf(d) \cap TagsOf(e)) >= 2
           /\ Len(heap[d].Related) >= 2
           /\ e \in Range(heap[d].Related)
           /\ \E f \in Range(heap[d].Related) :
                  Cardinality(TagsOf(d) \cap TagsOf(f)) = 1 /\ TimeOf(f) = TimeOf(e)

Carrying(t) == {d \in DOMAIN heap : t \in TagsOf(d)}

\* The subsequence of q whose elements are in S.
Restrict(q, S) == LET in(d) == d \in S IN SelectSeq(q, in)

\* C10: after loadDocs, docTags[t] is the subsequence of s.docs of the documents
\* carrying t, each once even when a document lists t twice; only carried tags
\* have a bucket; a document without tags is in no bucket and has no Related.
C10_TagIndex ==
    Loaded =>
        /\ DOMAIN docTags = UNION {TagsOf(d) : d \in DOMAIN heap}
        /\ \A t \in DOMAIN docTags : docTags[t] = Restrict(docs, Carrying(t))
        /\ \A d \in DOMAIN heap :
               heap[d].Tags = <<>> =>
                   /\ \A t \in DOMAIN docTags : d \notin Range(docTags[t])
                   /\ heap[d].Related = <<>>

-----------------------------------------------------------------------------
(* Ordering: up to MaxSortDocs articles without tags, under either build. *)

NextSort == Load(GoodEntries(Articles(MaxSortDocs), Times, {<<>>}))

SpecSort == Init /\ [][NextSort]_vars

-----------------------------------------------------------------------------
(* Walk errors: readable and unreadable entries, files that fail to load. *)

WalkEntries ==
    GoodEntries(Articles(MaxDocs), {1}, {<<>>})
        \cup BadEntries(Articles(MaxDocs))
        \cup OtherEntries

NextWalk == Load(WalkEntries) \/ Render

SpecWalk == Init /\ [][NextWalk]_vars

\* C4: every load-phase error (open, parse, render, a walk failure reported for
\* a visited entry, feed serialization) makes NewServer return an error and no
\* server; no server is returned whose corpus misses part of the content tree.
C4_LoadErrorsAbort == pc = "serving" => ~loadErr /\ ~unvisited

-----------------------------------------------------------------------------
(* Feeds: every FeedArticles from -1 to beyond the corpus. *)

InitFeed == InitWith({Config(2, n) : n \in Counts})

NextFeed == Load(GoodEntries(Articles(MaxDocs), Times, {<<>>})) \/ Render

SpecFeed == InitFeed /\ [][NextFeed]_vars

Smaller(a, b) == IF a < b THEN a ELSE b

Larger(a, b) == IF a > b THEN a ELSE b

FeedsListPrefix(n) ==
    /\ Len(atomFeed.Entry) = n
    /\ Len(jsonFeed.Items) = n
    /\ \A k \in 1..n :
           /\ k <= Len(docs)
           /\ atomFeed.Entry[k].Link = heap[docs[k]].Permalink
           /\ atomFeed.Entry[k].ID = FeedID \o heap[docs[k]].Path
           /\ atomFeed.Entry[k].Published = heap[docs[k]].Time
           /\ jsonFeed.Items[k].Link = heap[docs[k]].Permalink
           /\ jsonFeed.Items[k].Time = heap[docs[k]].Time

\* C5 as stated: both feeds hold exactly min(FeedArticles, len(docs)) items, the
\* k-th being the projection of the k-th document of the corpus.
C5_FeedCountAsStated ==
    pc = "serving" => FeedsListPrefix(Smaller(cfg.FeedArticles, Len(docs)))

\* C5 amended: both feeds hold exactly min(max(FeedArticles, 0), len(docs)) items,
\* the k-th being the projection of the k-th document of the corpus; a negative
\* FeedArticles gives empty feeds.
C5_FeedPrefix ==
    pc = "serving" => FeedsListPrefix(Smaller(Larger(cfg.FeedArticles, 0), Len(docs)))

C5_Witness ==
    /\ pc = "serving"
    /\ cfg.FeedArticles = 2
    /\ Len(docs) = 3
    /\ Len(atomFeed.Entry) = 2
    /\ Len(jsonFeed.Items) = 2
    /\ docs # <<1, 2, 3>>

-----------------------------------------------------------------------------
(* Serving: one goroutine, every route, every HomeArticles. *)

URL(route) == cfg.BasePath \o route

Routes == {"/", "/index", "/feed.atom", "/feeds/posts/default", "/.json"}

DocRoutes == {SubSeq(n, 1, Len(n) - Len(ext)) : n \in Articles(MaxDocs)}

JSONPValues == {"", "cb", "1bad", "a.b", "_x1", "a-b", "Cb", ".a", "cb\n"}

Requests ==
    {Request(URL(p), "") : p \in Routes \cup DocRoutes \cup {"/nosuch"}}
        \cup {Request("/a", "")}
        \cup {Request(URL("/.json"), j) : j \in JSONPValues}

Serve(handlers, requests) ==
    \/ \E h \in handlers, r \in requests : Accept(h, r)
    \/ \E h \in handlers : ServeHTTP(h)

InitServe == InitWith({Config(n, 2) : n \in Counts})

NextServe ==
    \/ Load(GoodEntries(Articles(MaxDocs), Times, {<<>>}))
    \/ Render
    \/ Serve({1}, Requests)

SpecServe == InitServe /\ [][NextServe]_vars

Answered(h) == pc = "serving" /\ resp[h].kind # "none"

RelPath(r) == TrimPrefix(r.Path, cfg.BasePath)

DocAt(p) == {d \in DOMAIN heap : TrimPrefix(heap[d].Path, cfg.BasePath) = p}

IsArticleOf(rsp, d) == rsp.kind = "template" /\ rsp.view = "article" /\ rsp.Doc = d

\* C6 as stated: a request whose path relative to the base path is the path of a
\* document of the corpus gets the article view of exactly that document, for
\* every document of the corpus.
C6_ArticleAsStated ==
    \A h \in Handlers :
        Answered(h) => \A d \in DocAt(RelPath(resp[h].req)) : IsArticleOf(resp[h], d)

\* C6 amended: a request whose path relative to the base path is the path of a
\* document of the corpus, and is none of the fixed routes /, /index, /feed.atom,
\* /feeds/posts/default and /.json, gets the article view of exactly that
\* document; a document stored under a fixed route's path is never served.
C6_Article ==
    \A h \in Handlers :
        Answered(h) =>
            \A d \in DocAt(RelPath(resp[h].req)) :
                IF RelPath(resp[h].req) \in Routes
                THEN ~IsArticleOf(resp[h], d)
                ELSE IsArticleOf(resp[h], d)

C6_Witness ==
    /\ Answered(1)
    /\ Len(docs) >= 2
    /\ RelPath(resp[1].req) \notin Routes
    /\ \E d \in DocAt(RelPath(resp[1].req)) : IsArticleOf(resp[1], d) /\ d # docs[1]

\* The identifiers of C7: non-empty, only letters, digits, underscore and dot,
\* not starting with a digit.
IsIdentifierAsStated(p) ==
    /\ p # ""
    /\ \A i \in 1..Len(p) : CharAt(p, i) \in Letters \cup Digits \cup {"_", "."}
    /\ CharAt(p, 1) \notin Digits

\* The same, and not starting with a dot either.
IsIdentifier(p) == IsIdentifierAsStated(p) /\ CharAt(p, 1) # "."

JSONPAnswer(rsp, valid) ==
    IF valid
    THEN /\ rsp.kind = "bytes"
         /\ rsp.body = <<rsp.req.jsonp, "(", jsonFeed, ")">>
         /\ rsp.ctype = "application/javascript; charset=utf-8"
    ELSE /\ rsp.kind = "bytes"
         /\ rsp.body = <<jsonFeed>>
         /\ rsp.ctype = "application/json; charset=utf-8"

\* C7 as stated: on the JSON feed path a jsonp parameter that is an identifier
\* (non-empty, letters, digits, underscore and dot, not starting with a digit)
\* gets <identifier>(<cached JSON>) as JavaScript; any other value gets the
\* cached JSON as JSON.
C7_JSONPAsStated ==
    \A h \in Handlers :
        (Answered(h) /\ RelPath(resp[h].req) = "/.json") =>
            JSONPAnswer(resp[h], IsIdentifierAsStated(resp[h].req.jsonp))

\* C7 amended: the identifier must start with a letter or an underscore (neither
\* a digit nor a dot); such a parameter gets <identifier>(<cached JSON>) as
\* JavaScript, any other value the cached JSON as JSON.
C7_JSONP ==
    \A h \in Handlers :
        (Answered(h) /\ RelPath(resp[h].req) = "/.json") =>
            JSONPAnswer(resp[h], IsIdentifier(resp[h].req.jsonp))

C7_Witness ==
    /\ Answered(1)
    /\ resp[1].req.jsonp = "a.b"
    /\ resp[1].body = <<"a.b", "(", jsonFeed, ")">>
    /\ Len(jsonFeed.Items) = 2

\* C8: a request to the root path renders the home view with exactly the first
\* min(HomeArticles, len(docs)) documents of the corpus, for every HomeArticles.
C8_Home ==
    \A h \in Handlers :
        (Answered(h) /\ RelPath(resp[h].req) = "/") =>
            /\ resp[h].kind = "template"
            /\ resp[h].view = "home"
            /\ resp[h].Data = SubSeq(docs, 1, Smaller(cfg.HomeArticles, Len(docs)))

-----------------------------------------------------------------------------
(* Concurrency: MaxHandlers goroutines over one corpus. *)

MaxConcDocs == 2

ConcRequests ==
    {Request(URL(p), "") : p \in {"/", "/index", "/feed.atom", "/a"}}
        \cup {Request(URL("/.json"), "cb")}

NextConc ==
    \/ Load(GoodEntries(Articles(MaxConcDocs), {1}, {<<>>, <<"go">>}))
    \/ Render
    \/ Serve(Handlers, ConcRequests)

InitConc == InitWith({Config(1, 1)})

SpecConc == InitConc /\ [][NextConc]_vars

\* C9: once NewServer has returned the server, no request, in any interleaving,
\* changes the documents, their Newer, Older and Related, the path lookup, the
\* tag index, the tag list or the cached feeds.
C9_SharedImmutable == [][pc = "serving" => shared' = shared]_vars

C9_Witness ==
    /\ pc = "serving"
    /\ Len(docs) = MaxConcDocs
    /\ \A h \in Handlers : inflight[h].busy
    /\ \E h \in Handlers : resp[h].kind = "template" /\ resp[h].view = "home"
    /\ \E d \in DOMAIN heap : heap[d].Related # <<>>

====
